---- MODULE Spec2Model ----
(***************************************************************************)
(* Storage engine of Intro-Database: the clock buffer manager              *)
(* (P2 Buffer Manager/buffer.cpp) and the B+ tree index built on it        *)
(* (P3 B+ Tree, btree.cpp / btree.h).                                      *)
(*                                                                         *)
(* A page pointer is the index of the frame it points into, so a pointer  *)
(* kept after its page was unpinned reads whatever the frame              *)
(* holds now.  An operation that throws is an action whose lastOp.exc      *)
(* names the exception; the state it leaves is the state at the throw.     *)
(***************************************************************************)
EXTENDS Integers, Sequences, FiniteSets, TLC

(***************************************************************************)
(* Bounds of the model.                                                    *)
(***************************************************************************)
\* numBufs of the pool driven directly by a buffer-manager client (SpecBM)
ClientPoolFrames == 2
\* number of files the buffer-manager client works on
ClientFiles == 2
\* pages a client file can hold (page numbers 1..ClientFilePages)
ClientFilePages == 2
\* a client pins one page at most this many times at once
MaxPin == 1
\* number of distinct mutations a client applies to pinned pages
MaxMut == 1
\* key slots of a leaf (INTARRAYLEAFSIZE of btree.h, 682 for 8 KB pages)
INTARRAYLEAFSIZE == 3
\* key slots of an internal node (INTARRAYNONLEAFSIZE of btree.h, 1023)
INTARRAYNONLEAFSIZE == 3
\* numBufs of the pool the index works on
IndexPoolFrames == 7
\* page numbers 1..IndexFilePages can be allocated in the index file
IndexFilePages == 10
\* keys inserted and scan bounds are in 1..MaxKey
MaxKey == 2
\* number of insertEntry calls
MaxInserts == 7
MaxScanPins == 1
SmallPoolFrames == 2
MaxAscKey == 8
MaxWideInserts == 5

VARIABLES
  numBufs,        \* BufMgr::numBufs
  bufDescTable,   \* BufMgr::bufDescTable : frame -> BufDesc
  bufPool,        \* BufMgr::bufPool      : frame -> page bytes
  hashTable,      \* BufMgr::hashTable    : set of <<file, pageNo, frameNo>>
  clockHand,      \* BufMgr::clockHand
  disk,           \* the files: file -> [pageNo -> <<page bytes>>, or NoPage]
  lastOp,         \* the last call made and how it ended
  committed,      \* file -> pageNo -> mutations unpinned with dirty = true
  nextMut,        \* next mutation identifier of the client
  rootPageNo,     \* BTreeIndex::indexMetaInfo.rootPageNo
  scanExecuting,  \* BTreeIndex::scanExecuting
  nextEntry,      \* BTreeIndex::nextEntry
  currentPageNum, \* BTreeIndex::currentPageNum
  currentPageData,\* BTreeIndex::currentPageData (the frame pointed to)
  lowValInt,      \* BTreeIndex::lowValInt
  highValInt,     \* BTreeIndex::highValInt
  lowOp,          \* BTreeIndex::lowOp
  highOp,         \* BTreeIndex::highOp
  inserted,       \* the <<key, rid>> pairs insertEntry returned for, in order
  emitted,        \* the rids scanNext returned since the last startScan
  signedOverflow  \* what this build does on INT_MAX + 1 in an int

bmVars == <<numBufs, bufDescTable, bufPool, hashTable, clockHand, disk>>
clientVars == <<committed, nextMut>>
btVars == <<rootPageNo, scanExecuting, nextEntry, currentPageNum,
            currentPageData, lowValInt, highValInt, lowOp, highOp,
            inserted, emitted, signedOverflow>>
vars == <<numBufs, bufDescTable, bufPool, hashTable, clockHand, disk,
          lastOp, committed, nextMut, rootPageNo, scanExecuting, nextEntry,
          currentPageNum, currentPageData, lowValInt, highValInt, lowOp,
          highOp, inserted, emitted, signedOverflow>>

NullFile == 0
InvalidPageNo == 0
\* a page number of a file that holds no page; a page that exists is <<bytes>>
NoPage == <<>>
NoFrame == -1

Frames == 0 .. (numBufs - 1)

(***************************************************************************)
(* BufDesc (buffer.h): Clear() and Set().                                  *)
(***************************************************************************)
ClearedDesc ==
  [file |-> NullFile, pageNo |-> InvalidPageNo, valid |-> FALSE,
   dirty |-> FALSE, refbit |-> FALSE, pinCnt |-> 0]

SetDesc(file, pageNo) ==
  [file |-> file, pageNo |-> pageNo, valid |-> TRUE,
   dirty |-> FALSE, refbit |-> TRUE, pinCnt |-> 1]

(***************************************************************************)
(* BufHashTbl: insert, lookup, remove.                                     *)
(***************************************************************************)
hashLookup(h, file, pageNo) == {e \in h : e[1] = file /\ e[2] = pageNo}
hashFound(h, file, pageNo) == hashLookup(h, file, pageNo) # {}
hashFrame(h, file, pageNo) == (CHOOSE e \in hashLookup(h, file, pageNo) : TRUE)[3]
hashInsert(h, file, pageNo, frameNo) == h \cup {<<file, pageNo, frameNo>>}
hashRemove(h, file, pageNo) == h \ hashLookup(h, file, pageNo)

(***************************************************************************)
(* File: allocatePage, readPage, writePage, deletePage.                    *)
(***************************************************************************)
FilePageExists(d, file, pageNo) ==
  pageNo \in DOMAIN d[file] /\ d[file][pageNo] # NoPage

FileFreePages(d, file) ==
  {p \in DOMAIN d[file] : p # InvalidPageNo /\ d[file][p] = NoPage}

FileCanAllocate(d, file) == FileFreePages(d, file) # {}

FileNewPageNo(d, file) ==
  CHOOSE p \in FileFreePages(d, file) : \A q \in FileFreePages(d, file) : p <= q

FileAllocatePage(d, file, fresh) ==
  [d EXCEPT ![file][FileNewPageNo(d, file)] = <<fresh>>]

FileReadPage(d, file, pageNo) == d[file][pageNo][1]

FileWritePage(d, file, pageNo, bytes) == [d EXCEPT ![file][pageNo] = <<bytes>>]

FileDeletePage(d, file, pageNo) == [d EXCEPT ![file][pageNo] = NoPage]

(***************************************************************************)
(* BufMgr.  b is the buffer manager with its files:                        *)
(* [desc, pool, hash, clock, disk].  Each operation returns the record     *)
(* [bm, exc, ...] of the state it leaves and the exception it threw.       *)
(***************************************************************************)
advanceClock(hand) == (hand + 1) % numBufs

\* iterations after which the model gives up following the while loop
AllocBufFuel == 4 * numBufs + 4

\* allocBuf that takes the first frame whose refbit is clear, pinned or not
RECURSIVE allocBufLoopIgnoresPin(_, _, _)
allocBufLoopIgnoresPin(b, pinnedCount, steps) ==
  LET hand == advanceClock(b.clock)
      b1   == [b EXCEPT !.clock = hand]
      d    == b.desc[hand]
  IN
  IF steps >= AllocBufFuel
    THEN [bm |-> b, exc |-> "Diverged", frame |-> NoFrame, steps |-> steps]
  ELSE IF pinnedCount >= numBufs
    THEN [bm |-> b1, exc |-> "BufferExceeded", frame |-> NoFrame,
          steps |-> steps + 1]
  ELSE IF d.valid /\ d.refbit
    THEN allocBufLoopIgnoresPin([b1 EXCEPT !.desc[hand].refbit = FALSE],
                                pinnedCount, steps + 1)
  ELSE
    [bm |-> [b1 EXCEPT
               !.hash = hashRemove(b.hash, d.file, d.pageNo),
               !.disk = IF d.valid /\ d.dirty
                          THEN FileWritePage(b.disk, d.file, d.pageNo,
                                             b.pool[hand])
                          ELSE b.disk,
               !.desc[hand] = ClearedDesc],
     exc |-> "none", frame |-> hand, steps |-> steps + 1]

\* allocBuf that never counts the pinned frames it passes
RECURSIVE allocBufLoopNoTally(_, _, _)
allocBufLoopNoTally(b, pinnedCount, steps) ==
  LET hand == advanceClock(b.clock)
      b1   == [b EXCEPT !.clock = hand]
      d    == b.desc[hand]
  IN
  IF steps >= AllocBufFuel
    THEN [bm |-> b, exc |-> "Diverged", frame |-> NoFrame, steps |-> steps]
  ELSE IF pinnedCount >= numBufs
    THEN [bm |-> b1, exc |-> "BufferExceeded", frame |-> NoFrame,
          steps |-> steps + 1]
  ELSE IF d.valid
    THEN IF d.refbit
           THEN allocBufLoopNoTally([b1 EXCEPT !.desc[hand].refbit = FALSE],
                                    pinnedCount, steps + 1)
         ELSE IF d.pinCnt > 0
           THEN allocBufLoopNoTally(b1, pinnedCount, steps + 1)
         ELSE
           [bm |-> [b1 EXCEPT
                      !.hash = hashRemove(b.hash, d.file, d.pageNo),
                      !.disk = IF d.dirty
                                 THEN FileWritePage(b.disk, d.file, d.pageNo,
                                                    b.pool[hand])
                                 ELSE b.disk,
                      !.desc[hand] = ClearedDesc],
            exc |-> "none", frame |-> hand, steps |-> steps + 1]
  ELSE
    [bm |-> [b1 EXCEPT !.desc[hand] = ClearedDesc],
     exc |-> "none", frame |-> hand, steps |-> steps + 1]

\* allocBuf that drops the bytes of a dirty victim instead of writing them
RECURSIVE allocBufLoopDropsDirty(_, _, _)
allocBufLoopDropsDirty(b, pinnedCount, steps) ==
  LET hand == advanceClock(b.clock)
      b1   == [b EXCEPT !.clock = hand]
      d    == b.desc[hand]
  IN
  IF steps >= AllocBufFuel
    THEN [bm |-> b, exc |-> "Diverged", frame |-> NoFrame, steps |-> steps]
  ELSE IF pinnedCount >= numBufs
    THEN [bm |-> b1, exc |-> "BufferExceeded", frame |-> NoFrame,
          steps |-> steps + 1]
  ELSE IF d.valid
    THEN IF d.refbit
           THEN allocBufLoopDropsDirty([b1 EXCEPT !.desc[hand].refbit = FALSE],
                                       pinnedCount, steps + 1)
         ELSE IF d.pinCnt > 0
           THEN allocBufLoopDropsDirty(b1, pinnedCount + 1, steps + 1)
         ELSE
           [bm |-> [b1 EXCEPT
                      !.hash = hashRemove(b.hash, d.file, d.pageNo),
                      !.desc[hand] = ClearedDesc],
            exc |-> "none", frame |-> hand, steps |-> steps + 1]
  ELSE
    [bm |-> [b1 EXCEPT !.desc[hand] = ClearedDesc],
     exc |-> "none", frame |-> hand, steps |-> steps + 1]

\* allocBuf that takes an unpinned frame whatever its refbit, without the
\* second chance
RECURSIVE allocBufLoopNoSecondChance(_, _, _)
allocBufLoopNoSecondChance(b, pinnedCount, steps) ==
  LET hand == advanceClock(b.clock)
      b1   == [b EXCEPT !.clock = hand]
      d    == b.desc[hand]
  IN
  IF steps >= AllocBufFuel
    THEN [bm |-> b, exc |-> "Diverged", frame |-> NoFrame, steps |-> steps]
  ELSE IF pinnedCount >= numBufs
    THEN [bm |-> b1, exc |-> "BufferExceeded", frame |-> NoFrame,
          steps |-> steps + 1]
  ELSE IF d.valid
    THEN IF d.pinCnt > 0
           THEN allocBufLoopNoSecondChance(b1, pinnedCount + 1, steps + 1)
         ELSE
           [bm |-> [b1 EXCEPT
                      !.hash = hashRemove(b.hash, d.file, d.pageNo),
                      !.disk = IF d.dirty
                                 THEN FileWritePage(b.disk, d.file, d.pageNo,
                                                    b.pool[hand])
                                 ELSE b.disk,
                      !.desc[hand] = ClearedDesc],
            exc |-> "none", frame |-> hand, steps |-> steps + 1]
  ELSE
    [bm |-> [b1 EXCEPT !.desc[hand] = ClearedDesc],
     exc |-> "none", frame |-> hand, steps |-> steps + 1]

RECURSIVE allocBufLoop(_, _, _)
allocBufLoop(b, pinnedCount, steps) ==
  LET hand == advanceClock(b.clock)
      b1   == [b EXCEPT !.clock = hand]
      d    == b.desc[hand]
  IN
  IF steps >= AllocBufFuel
    THEN [bm |-> b, exc |-> "Diverged", frame |-> NoFrame, steps |-> steps]
  ELSE IF pinnedCount >= numBufs
    THEN [bm |-> b1, exc |-> "BufferExceeded", frame |-> NoFrame,
          steps |-> steps + 1]
  ELSE IF d.valid
    THEN IF d.refbit
           THEN allocBufLoop([b1 EXCEPT !.desc[hand].refbit = FALSE],
                             pinnedCount, steps + 1)
         ELSE IF d.pinCnt > 0
           THEN allocBufLoop(b1, pinnedCount + 1, steps + 1)
         ELSE
           [bm |-> [b1 EXCEPT
                      !.hash = hashRemove(b.hash, d.file, d.pageNo),
                      !.disk = IF d.dirty
                                 THEN FileWritePage(b.disk, d.file, d.pageNo,
                                                    b.pool[hand])
                                 ELSE b.disk,
                      !.desc[hand] = ClearedDesc],
            exc |-> "none", frame |-> hand, steps |-> steps + 1]
  ELSE
    [bm |-> [b1 EXCEPT !.desc[hand] = ClearedDesc],
     exc |-> "none", frame |-> hand, steps |-> steps + 1]

allocBuf(b) == allocBufLoop(b, 0, 0)

\* readPage that never finds the page in the pool
readPageAlwaysMiss(b, file, pageNo) ==
  LET a == allocBuf(b) IN
  IF a.exc # "none" THEN a
  ELSE [bm |-> [a.bm EXCEPT
                  !.pool[a.frame] = FileReadPage(a.bm.disk, file, pageNo),
                  !.hash = hashInsert(a.bm.hash, file, pageNo, a.frame),
                  !.desc[a.frame] = SetDesc(file, pageNo)],
        exc |-> "none", frame |-> a.frame, steps |-> a.steps]

\* readPage that pins a resident page without setting its refbit
readPageHitKeepsRefbit(b, file, pageNo) ==
  IF hashFound(b.hash, file, pageNo)
    THEN LET index == hashFrame(b.hash, file, pageNo) IN
         [bm |-> [b EXCEPT !.desc[index].pinCnt = @ + 1],
          exc |-> "none", frame |-> index, steps |-> 0]
    ELSE LET a == allocBuf(b) IN
         IF a.exc # "none" THEN a
         ELSE [bm |-> [a.bm EXCEPT
                         !.pool[a.frame] = FileReadPage(a.bm.disk, file, pageNo),
                         !.hash = hashInsert(a.bm.hash, file, pageNo, a.frame),
                         !.desc[a.frame] = SetDesc(file, pageNo)],
               exc |-> "none", frame |-> a.frame, steps |-> a.steps]

readPage(b, file, pageNo) ==
  IF hashFound(b.hash, file, pageNo)
    THEN LET index == hashFrame(b.hash, file, pageNo) IN
         [bm |-> [b EXCEPT !.desc[index].refbit = TRUE,
                           !.desc[index].pinCnt = @ + 1],
          exc |-> "none", frame |-> index, steps |-> 0]
    ELSE LET a == allocBuf(b) IN
         IF a.exc # "none" THEN a
         ELSE [bm |-> [a.bm EXCEPT
                         !.pool[a.frame] = FileReadPage(a.bm.disk, file, pageNo),
                         !.hash = hashInsert(a.bm.hash, file, pageNo, a.frame),
                         !.desc[a.frame] = SetDesc(file, pageNo)],
               exc |-> "none", frame |-> a.frame, steps |-> a.steps]

\* unPinPage that stores the dirty argument instead of or-ing it in
unPinPageStoresDirty(b, file, pageNo, dirty) ==
  IF hashFound(b.hash, file, pageNo)
    THEN LET index == hashFrame(b.hash, file, pageNo) IN
         IF b.desc[index].pinCnt = 0
           THEN [bm |-> b, exc |-> "PageNotPinned"]
           ELSE [bm |-> [b EXCEPT !.desc[index].pinCnt = @ - 1,
                                  !.desc[index].dirty = dirty],
                 exc |-> "none"]
    ELSE [bm |-> b, exc |-> "none"]

\* unPinPage that decrements the pin count without testing it
unPinPageUnchecked(b, file, pageNo, dirty) ==
  IF hashFound(b.hash, file, pageNo)
    THEN LET index == hashFrame(b.hash, file, pageNo) IN
         [bm |-> [b EXCEPT !.desc[index].pinCnt = @ - 1,
                           !.desc[index].dirty = IF dirty THEN TRUE ELSE @],
          exc |-> "none"]
    ELSE [bm |-> b, exc |-> "none"]

unPinPage(b, file, pageNo, dirty) ==
  IF hashFound(b.hash, file, pageNo)
    THEN LET index == hashFrame(b.hash, file, pageNo) IN
         IF b.desc[index].pinCnt = 0
           THEN [bm |-> b, exc |-> "PageNotPinned"]
           ELSE [bm |-> [b EXCEPT !.desc[index].pinCnt = @ - 1,
                                  !.desc[index].dirty = IF dirty THEN TRUE ELSE @],
                 exc |-> "none"]
    ELSE [bm |-> b, exc |-> "none"]

\* flushFile that clears the frames of the file without writing the dirty ones
RECURSIVE flushFileLoopNoWrite(_, _, _)
flushFileLoopNoWrite(b, file, i) ==
  IF i >= numBufs THEN [bm |-> b, exc |-> "none"]
  ELSE LET d == b.desc[i] IN
    IF d.file = file /\ d.valid = TRUE
      THEN IF d.pinCnt > 0
             THEN [bm |-> b, exc |-> "PagePinned"]
             ELSE flushFileLoopNoWrite(
                    [b EXCEPT
                       !.hash = hashRemove(b.hash, file, d.pageNo),
                       !.desc[i] = ClearedDesc],
                    file, i + 1)
      ELSE [bm |-> b, exc |-> "BadBuffer"]

RECURSIVE flushFileLoop(_, _, _)
flushFileLoop(b, file, i) ==
  IF i >= numBufs THEN [bm |-> b, exc |-> "none"]
  ELSE LET d == b.desc[i] IN
    IF d.file = file /\ d.valid = TRUE
      THEN IF d.pinCnt > 0
             THEN [bm |-> b, exc |-> "PagePinned"]
             ELSE flushFileLoop(
                    [b EXCEPT
                       !.disk = IF d.dirty
                                  THEN FileWritePage(b.disk, d.file, d.pageNo,
                                                     b.pool[i])
                                  ELSE b.disk,
                       !.hash = hashRemove(b.hash, file, d.pageNo),
                       !.desc[i] = ClearedDesc],
                    file, i + 1)
      ELSE [bm |-> b, exc |-> "BadBuffer"]

flushFile(b, file) == flushFileLoop(b, file, 0)

allocPage(b, file, fresh) ==
  LET newNo == FileNewPageNo(b.disk, file)
      b1    == [b EXCEPT !.disk = FileAllocatePage(b.disk, file, fresh)]
      a     == allocBuf(b1)
  IN IF a.exc # "none" THEN [a EXCEPT !.frame = NoFrame] @@ [pageNo |-> newNo]
     ELSE [bm |-> [a.bm EXCEPT
                     !.pool[a.frame] = fresh,
                     !.hash = hashInsert(a.bm.hash, file, newNo, a.frame),
                     !.desc[a.frame] = SetDesc(file, newNo)],
           exc |-> "none", frame |-> a.frame, steps |-> a.steps,
           pageNo |-> newNo]

\* disposePage that clears the descriptor and leaves the hash entry
disposePageKeepsEntry(b, file, pageNo) ==
  LET b1 == IF hashFound(b.hash, file, pageNo)
              THEN LET index == hashFrame(b.hash, file, pageNo) IN
                   [b EXCEPT !.desc[index] = ClearedDesc]
              ELSE b
  IN [bm |-> [b1 EXCEPT !.disk = FileDeletePage(b1.disk, file, pageNo)],
      exc |-> "none"]

disposePage(b, file, pageNo) ==
  LET b1 == IF hashFound(b.hash, file, pageNo)
              THEN LET index == hashFrame(b.hash, file, pageNo) IN
                   [b EXCEPT !.desc[index] = ClearedDesc,
                             !.hash = hashRemove(b.hash, file, pageNo)]
              ELSE b
  IN [bm |-> [b1 EXCEPT !.disk = FileDeletePage(b1.disk, file, pageNo)],
      exc |-> "none"]

(***************************************************************************)
(* The state as one record, and back.                                      *)
(***************************************************************************)
BM == [desc |-> bufDescTable, pool |-> bufPool, hash |-> hashTable,
       clock |-> clockHand, disk |-> disk]

SetBM(b) ==
  /\ bufDescTable' = b.desc
  /\ bufPool' = b.pool
  /\ hashTable' = b.hash
  /\ clockHand' = b.clock
  /\ disk' = b.disk
  /\ numBufs' = numBufs

(***************************************************************************)
(* BufMgr::BufMgr(bufs), and the files of a client: page 1 of each file    *)
(* exists and is empty.                                                    *)
(***************************************************************************)
ClientFileSet == 1 .. ClientFiles
ClientPageNos == 1 .. ClientFilePages

NoCall == [op |-> "none", exc |-> "none", frame |-> NoFrame, steps |-> 0]

InitBM ==
  /\ numBufs = ClientPoolFrames
  /\ bufDescTable = [i \in 0 .. (ClientPoolFrames - 1) |-> ClearedDesc]
  /\ bufPool = [i \in 0 .. (ClientPoolFrames - 1) |-> {}]
  /\ hashTable = {}
  /\ clockHand = ClientPoolFrames - 1
  /\ disk = [f \in ClientFileSet |->
               [p \in ClientPageNos |-> IF p = 1 THEN <<{}>> ELSE NoPage]]
  /\ lastOp = NoCall
  /\ committed = [f \in ClientFileSet |-> [p \in ClientPageNos |-> {}]]
  /\ nextMut = 1
  /\ rootPageNo = InvalidPageNo
  /\ scanExecuting = FALSE
  /\ nextEntry = 0
  /\ currentPageNum = InvalidPageNo
  /\ currentPageData = NoFrame
  /\ lowValInt = 0
  /\ highValInt = 0
  /\ lowOp = "GTE"
  /\ highOp = "LTE"
  /\ inserted = <<>>
  /\ emitted = <<>>
  /\ signedOverflow = "wrap"

(***************************************************************************)
(* The calls of a buffer-manager client.                                   *)
(***************************************************************************)
ReadPage(file, pageNo) ==
  /\ FilePageExists(disk, file, pageNo)
  /\ \A e \in hashLookup(hashTable, file, pageNo) :
        bufDescTable[e[3]].pinCnt < MaxPin
  /\ LET r == readPage(BM, file, pageNo) IN
     /\ SetBM(r.bm)
     /\ lastOp' = [op |-> "readPage", exc |-> r.exc, frame |-> r.frame, steps |-> r.steps]
  /\ UNCHANGED <<committed, nextMut, btVars>>

UnPinPage(file, pageNo, dirty) ==
  /\ FilePageExists(disk, file, pageNo)
  /\ LET r == unPinPage(BM, file, pageNo, dirty) IN
     /\ SetBM(r.bm)
     /\ lastOp' = [op |-> "unPinPage", exc |-> r.exc, frame |-> NoFrame, steps |-> 0]
     /\ committed' =
          IF dirty /\ r.exc = "none" /\ hashFound(hashTable, file, pageNo)
            THEN [committed EXCEPT ![file][pageNo] =
                    bufPool[hashFrame(hashTable, file, pageNo)]]
            ELSE committed
  /\ UNCHANGED <<nextMut, btVars>>

AllocPage(file) ==
  /\ FileCanAllocate(disk, file)
  /\ LET r == allocPage(BM, file, {}) IN
     /\ SetBM(r.bm)
     /\ lastOp' = [op |-> "allocPage", exc |-> r.exc, frame |-> r.frame, steps |-> r.steps]
  /\ UNCHANGED <<committed, nextMut, btVars>>

DisposePage(file, pageNo) ==
  /\ FilePageExists(disk, file, pageNo)
  /\ LET r == disposePage(BM, file, pageNo) IN
     /\ SetBM(r.bm)
     /\ lastOp' = [op |-> "disposePage", exc |-> r.exc, frame |-> NoFrame, steps |-> 0]
  /\ committed' = [committed EXCEPT ![file][pageNo] = {}]
  /\ UNCHANGED <<nextMut, btVars>>

FlushFile(file) ==
  /\ LET r == flushFile(BM, file) IN
     /\ SetBM(r.bm)
     /\ lastOp' = [op |-> "flushFile", exc |-> r.exc, frame |-> NoFrame, steps |-> 0]
  /\ UNCHANGED <<committed, nextMut, btVars>>

\* the holder of a pin writes into the page through the pointer it was given
MutatePage(frameNo) ==
  /\ bufDescTable[frameNo].valid
  /\ bufDescTable[frameNo].pinCnt > 0
  /\ nextMut <= MaxMut
  /\ bufPool' = [bufPool EXCEPT ![frameNo] = @ \cup {nextMut}]
  /\ nextMut' = nextMut + 1
  /\ lastOp' = [op |-> "mutate", exc |-> "none", frame |-> frameNo, steps |-> 0]
  /\ UNCHANGED <<numBufs, bufDescTable, hashTable, clockHand, disk, committed,
                 btVars>>

NextBM ==
  \/ \E f \in ClientFileSet, p \in ClientPageNos : ReadPage(f, p)
  \/ \E f \in ClientFileSet, p \in ClientPageNos, dirty \in BOOLEAN :
        UnPinPage(f, p, dirty)
  \/ \E f \in ClientFileSet : AllocPage(f)
  \/ \E f \in ClientFileSet, p \in ClientPageNos : DisposePage(f, p)
  \/ \E f \in ClientFileSet : FlushFile(f)
  \/ \E i \in Frames : MutatePage(i)

SpecBM == InitBM /\ [][NextBM]_vars

(***************************************************************************)
(* B+ tree nodes (btree.h).  A page viewed as a node has every field of    *)
(* leaf_node_int and of non_leaf_node_int; a leaf uses keyArray over       *)
(* 0..INTARRAYLEAFSIZE-1 with ridArray and rightSibPageNo, an internal     *)
(* node keyArray over 0..INTARRAYNONLEAFSIZE-1 with pageNoArray.           *)
(***************************************************************************)
IndexFile == 1

\* the range of int, the type of the keys
INT_MAX == 2147483647
INT_MIN == (-INT_MAX) - 1
\* the outcomes of a signed overflow: the value wraps around, or the
\* program is stopped by a trap
SignedOverflowOutcomes == {"wrap", "trap"}

LeafSlots == 0 .. (INTARRAYLEAFSIZE - 1)
NonLeafKeySlots == 0 .. (INTARRAYNONLEAFSIZE - 1)
NonLeafPageSlots == 0 .. INTARRAYNONLEAFSIZE
KeySlots ==
  IF INTARRAYLEAFSIZE >= INTARRAYNONLEAFSIZE THEN LeafSlots ELSE NonLeafKeySlots

EmptyRid == [page_number |-> 0, slot_number |-> 0]

\* a page of zero bytes (memset(newNode, 0, Page::SIZE))
ZeroPage ==
  [level |-> 0,
   keyArray |-> [i \in KeySlots |-> 0],
   ridArray |-> [i \in LeafSlots |-> EmptyRid],
   pageNoArray |-> [i \in NonLeafPageSlots |-> 0],
   rightSibPageNo |-> 0]

\* page 0 of the index file, the reserved meta page, seen as a node
MetaPage == ZeroPage

isLeaf(page) == page.level = -1

isNonLeafFull(node) == node.pageNoArray[INTARRAYNONLEAFSIZE] # 0

isLeafFull(node) ==
  ~(/\ node.ridArray[INTARRAYLEAFSIZE - 1].page_number = 0
    /\ node.ridArray[INTARRAYLEAFSIZE - 1].slot_number = 0)

\* std::lower_bound over the slots first .. first+len-1, where before[i] says
\* that slot i compares before the value searched for
RECURSIVE lowerBound(_, _, _)
lowerBound(before, first, len) ==
  IF len <= 0 THEN first
  ELSE LET half   == len \div 2
           middle == first + half
       IN IF before[middle]
            THEN lowerBound(before, middle + 1, len - half - 1)
            ELSE lowerBound(before, first, half)

numInLeaf(node) ==
  lowerBound([i \in LeafSlots |-> node.ridArray[i].page_number > 0],
             0, INTARRAYLEAFSIZE)

numInNonLeaf(node) ==
  lowerBound([i \in NonLeafPageSlots |-> node.pageNoArray[i] > 0],
             0, INTARRAYNONLEAFSIZE + 1)

\* key++ on an int: past INT_MAX the behaviour is undefined; a build that
\* does not trap computes the wrapped value (a build that traps is stopped
\* by the caller of findIndexLeaf, see entryScanIndex)
findLargerInt(array, length, key, includeKey) ==
  LET k      == IF includeKey THEN key
                ELSE IF key = INT_MAX THEN INT_MIN
                ELSE key + 1
      result == lowerBound([i \in 0 .. (length - 1) |-> array[i] < k], 0, length)
  IN IF result >= length THEN -1 ELSE result

findSmallerKeyIndex(node, key) ==
  LET len    == numInNonLeaf(node)
      result == findLargerInt(node.keyArray, len - 1, key, TRUE)
  IN IF result = -1 THEN len - 1 ELSE result

findInsertionIndexLeaf(node, key) ==
  LET len    == numInLeaf(node)
      result == findLargerInt(node.keyArray, len, key, TRUE)
  IN IF result = -1 THEN len ELSE result

findIndexLeaf(node, key, includeKey) ==
  findLargerInt(node.keyArray, numInLeaf(node), key, includeKey)

insertionLeafNode(node, i, key, rid) ==
  [node EXCEPT
     !.keyArray = [j \in KeySlots |->
                     IF j = i THEN key
                     ELSE IF j > i /\ j <= INTARRAYLEAFSIZE - 1
                       THEN node.keyArray[j - 1]
                     ELSE node.keyArray[j]],
     !.ridArray = [j \in LeafSlots |->
                     IF j = i THEN rid
                     ELSE IF j > i THEN node.ridArray[j - 1]
                     ELSE node.ridArray[j]]]

insertionNonLeafNode(n, i, key, pid) ==
  [n EXCEPT
     !.keyArray = [j \in KeySlots |->
                     IF j = i THEN key
                     ELSE IF j > i /\ j <= INTARRAYNONLEAFSIZE - 1
                       THEN n.keyArray[j - 1]
                     ELSE n.keyArray[j]],
     !.pageNoArray = [j \in NonLeafPageSlots |->
                        IF j = i + 1 THEN pid
                        ELSE IF j > i + 1 THEN n.pageNoArray[j - 1]
                        ELSE n.pageNoArray[j]]]

\* splitLeaf and splitNonLeaf give <<the original node, the new node>>
splitLeaf(node, newNode, index) ==
  LET len == INTARRAYLEAFSIZE - index IN
  << [node EXCEPT
        !.keyArray = [j \in KeySlots |->
                        IF j >= index /\ j < INTARRAYLEAFSIZE
                          THEN 0 ELSE node.keyArray[j]],
        !.ridArray = [j \in LeafSlots |->
                        IF j >= index THEN EmptyRid ELSE node.ridArray[j]]],
     [newNode EXCEPT
        !.keyArray = [j \in KeySlots |->
                        IF j < len THEN node.keyArray[index + j]
                        ELSE newNode.keyArray[j]],
        !.ridArray = [j \in LeafSlots |->
                        IF j < len THEN node.ridArray[index + j]
                        ELSE newNode.ridArray[j]]] >>

splitNonLeaf(curr, next, i, keepKey) ==
  LET len == INTARRAYNONLEAFSIZE - i IN
  << [curr EXCEPT
        !.keyArray = [j \in KeySlots |->
                        IF j >= i /\ j < INTARRAYNONLEAFSIZE
                          THEN 0 ELSE curr.keyArray[j]],
        !.pageNoArray = [j \in NonLeafPageSlots |->
                           IF j >= i + 1 THEN 0 ELSE curr.pageNoArray[j]]],
     [next EXCEPT
        !.keyArray = [j \in KeySlots |->
                        IF keepKey /\ j < len THEN curr.keyArray[i + j]
                        ELSE IF ~keepKey /\ j < len - 1
                          THEN curr.keyArray[i + 1 + j]
                        ELSE next.keyArray[j]],
        !.pageNoArray = [j \in NonLeafPageSlots |->
                           IF j < len THEN curr.pageNoArray[i + 1 + j]
                           ELSE next.pageNoArray[j]]] >>

(***************************************************************************)
(* Insertion.  b is the buffer manager record; the result is               *)
(* [bm, exc, pid, midVal]: the page number of the node the split created   *)
(* (0 when there was no split) and the key to store in the parent.         *)
(***************************************************************************)
allocNonLeafNode(b) ==
  LET memset(a) ==
        IF a.exc # "none" THEN a
        ELSE [a EXCEPT !.bm.pool[a.frame] = ZeroPage]
  IN memset(allocPage(b, IndexFile, ZeroPage))

allocLeafNode(b) ==
  LET setLevel(a) ==
        IF a.exc # "none" THEN a
        ELSE [a EXCEPT !.bm.pool[a.frame].level = -1]
  IN setLevel(allocNonLeafNode(b))

Thrown(b, exc) == [bm |-> b, exc |-> exc, pid |-> 0, midVal |-> 0]

\* unPinPage as the last statement of a function whose result is (pid, midVal)
unPinAndReturn(b, pageNo, dirty, pid, midVal) ==
  LET return(u) == [bm |-> u.bm, exc |-> u.exc,
                    pid |-> IF u.exc = "none" THEN pid ELSE 0,
                    midVal |-> IF u.exc = "none" THEN midVal ELSE 0]
  IN return(unPinPage(b, IndexFile, pageNo, dirty))

\* splitRootNode with the two children of the new root exchanged
splitRootNodeSwapped(b, midVal, pid1, pid2) ==
  LET fill(a) ==
        IF a.exc # "none" THEN [bm |-> a.bm, exc |-> a.exc, pageNo |-> 0]
        ELSE LET newRoot == [a.bm.pool[a.frame] EXCEPT
                               !.keyArray[0] = midVal,
                               !.pageNoArray[0] = pid2,
                               !.pageNoArray[1] = pid1]
                 return(u) == [bm |-> u.bm, exc |-> u.exc, pageNo |-> a.pageNo]
             IN return(unPinPage([a.bm EXCEPT !.pool[a.frame] = newRoot],
                                 IndexFile, a.pageNo, TRUE))
  IN fill(allocNonLeafNode(b))

splitRootNode(b, midVal, pid1, pid2) ==
  LET fill(a) ==
        IF a.exc # "none" THEN [bm |-> a.bm, exc |-> a.exc, pageNo |-> 0]
        ELSE LET newRoot == [a.bm.pool[a.frame] EXCEPT
                               !.keyArray[0] = midVal,
                               !.pageNoArray[0] = pid1,
                               !.pageNoArray[1] = pid2]
                 return(u) == [bm |-> u.bm, exc |-> u.exc, pageNo |-> a.pageNo]
             IN return(unPinPage([a.bm EXCEPT !.pool[a.frame] = newRoot],
                                 IndexFile, a.pageNo, TRUE))
  IN fill(allocNonLeafNode(b))

\* the two unPinPage calls that end a split: the original page, then the
\* new one; midVal is read from the new node after it is unpinned when
\* readMidVal holds
unPinBoth(b, originalPage, newPageId, newFrame, readMidVal, midVal) ==
  LET second(u2) ==
        IF u2.exc # "none" THEN Thrown(u2.bm, u2.exc)
        ELSE [bm |-> u2.bm, exc |-> "none", pid |-> newPageId,
              midVal |-> IF readMidVal THEN u2.bm.pool[newFrame].keyArray[0]
                         ELSE midVal]
      first(u1) ==
        IF u1.exc # "none" THEN Thrown(u1.bm, u1.exc)
        ELSE second(unPinPage(u1.bm, IndexFile, newPageId, TRUE))
  IN first(unPinPage(b, IndexFile, originalPage, TRUE))

insertToLeafPage(b, origPage, originalPage, key, rid) ==
  LET originalNode == b.pool[origPage]
      index        == findInsertionIndexLeaf(originalNode, key)
      midIndex     == INTARRAYLEAFSIZE \div 2
      insertLeft   == index < midIndex
      split(a) ==
        IF a.exc # "none" THEN Thrown(a.bm, a.exc)
        ELSE
          LET halves   == splitLeaf(originalNode, a.bm.pool[a.frame],
                                    midIndex + (IF insertLeft THEN 1 ELSE 0))
              origIns  == IF insertLeft
                            THEN insertionLeafNode(halves[1], index, key, rid)
                            ELSE halves[1]
              newIns   == IF insertLeft
                            THEN halves[2]
                            ELSE insertionLeafNode(halves[2], index - midIndex,
                                                   key, rid)
              newNode  == [newIns EXCEPT
                             !.rightSibPageNo = origIns.rightSibPageNo]
              origNode == [origIns EXCEPT !.rightSibPageNo = a.pageNo]
          IN unPinBoth([a.bm EXCEPT !.pool[origPage] = origNode,
                                    !.pool[a.frame] = newNode],
                       originalPage, a.pageNo, a.frame, TRUE, 0)
  IN
  IF ~isLeafFull(originalNode)
    THEN unPinAndReturn(
           [b EXCEPT !.pool[origPage] =
              insertionLeafNode(originalNode, index, key, rid)],
           originalPage, TRUE, 0, 0)
    ELSE split(allocLeafNode(b))

\* what insert does in an internal node once the insertion below it returned
insertAfterChild(b, origPage, originalPage, newChildPageId, newChildMidVal) ==
  LET originalNode == b.pool[origPage]
      index        == findSmallerKeyIndex(originalNode, newChildMidVal)
      midIndex     == (INTARRAYNONLEAFSIZE - 1) \div 2
      insertLeft   == index < midIndex
      splitIndex   == midIndex + (IF insertLeft THEN 1 ELSE 0)
      insertIndex  == IF insertLeft THEN index ELSE index - midIndex
      moveKeyUp    == ~insertLeft /\ insertIndex = 0
      midVal       == IF moveKeyUp THEN newChildMidVal
                      ELSE originalNode.keyArray[splitIndex]
      split(a) ==
        IF a.exc # "none" THEN Thrown(a.bm, a.exc)
        ELSE
          LET halves   == splitNonLeaf(originalNode, a.bm.pool[a.frame],
                                       splitIndex, moveKeyUp)
              origNode == IF ~moveKeyUp /\ insertLeft
                            THEN insertionNonLeafNode(halves[1], insertIndex,
                                    newChildMidVal, newChildPageId)
                            ELSE halves[1]
              newNode  == IF ~moveKeyUp /\ ~insertLeft
                            THEN insertionNonLeafNode(halves[2], insertIndex,
                                    newChildMidVal, newChildPageId)
                            ELSE halves[2]
          IN unPinBoth([a.bm EXCEPT !.pool[origPage] = origNode,
                                    !.pool[a.frame] = newNode],
                       originalPage, a.pageNo, a.frame, FALSE, midVal)
  IN
  IF newChildPageId = 0
    THEN unPinAndReturn(b, originalPage, FALSE, 0, 0)
  ELSE IF ~isNonLeafFull(originalNode)
    THEN unPinAndReturn(
           [b EXCEPT !.pool[origPage] =
              insertionNonLeafNode(originalNode, index,
                                   newChildMidVal, newChildPageId)],
           originalPage, TRUE, 0, 0)
  ELSE split(allocNonLeafNode(b))

RECURSIVE insert(_, _, _, _)
insert(b, originalPage, key, rid) ==
  LET below(c, origPage) ==
        IF c.exc # "none" THEN c
        ELSE insertAfterChild(c.bm, origPage, originalPage, c.pid, c.midVal)
      descend(r) ==
        IF r.exc # "none" THEN Thrown(r.bm, r.exc)
        ELSE IF isLeaf(r.bm.pool[r.frame])
          THEN insertToLeafPage(r.bm, r.frame, originalPage, key, rid)
        ELSE
          LET originalNode       == r.bm.pool[r.frame]
              origChildPageIndex == findSmallerKeyIndex(originalNode, key)
              origChildPageId    == originalNode.pageNoArray[origChildPageIndex]
          IN below(insert(r.bm, origChildPageId, key, rid), r.frame)
  IN descend(readPage(b, IndexFile, originalPage))

(***************************************************************************)
(* BTreeIndex.  t is the index with the buffer manager under it:           *)
(* [bm, rootPageNo, scanExecuting, nextEntry, currentPageNum,              *)
(*  currentPageData, lowValInt, highValInt, lowOp, highOp].  Each          *)
(* operation gives [t, exc] (scanNext also the rid it returns).            *)
(***************************************************************************)
insertEntry(t, key, rid) ==
  LET newRoot(sr) ==
        IF sr.exc # "none"
          THEN [t |-> [t EXCEPT !.bm = sr.bm], exc |-> sr.exc]
          ELSE [t |-> [t EXCEPT !.bm = sr.bm, !.rootPageNo = sr.pageNo],
                exc |-> "none"]
      done(r) ==
        IF r.exc # "none" THEN [t |-> [t EXCEPT !.bm = r.bm], exc |-> r.exc]
        ELSE IF r.pid # 0
          THEN newRoot(splitRootNode(r.bm, r.midVal, t.rootPageNo, r.pid))
        ELSE [t |-> [t EXCEPT !.bm = r.bm], exc |-> "none"]
  IN done(insert(t.bm, t.rootPageNo, key, rid))

moveToNext(t, node) ==
  LET next(t1, r) ==
        IF r.exc # "none" THEN [t |-> [t1 EXCEPT !.bm = r.bm], exc |-> r.exc]
        ELSE [t |-> [t1 EXCEPT !.bm = r.bm, !.currentPageData = r.frame,
                               !.nextEntry = 0],
              exc |-> "none"]
      unpinned(u) ==
        IF u.exc # "none" THEN [t |-> [t EXCEPT !.bm = u.bm], exc |-> u.exc]
        ELSE next([t EXCEPT !.bm = u.bm,
                            !.currentPageNum = node.rightSibPageNo],
                  readPage(u.bm, IndexFile, node.rightSibPageNo))
  IN unpinned(unPinPage(t.bm, IndexFile, t.currentPageNum, FALSE))

RECURSIVE setPageScan(_)
setPageScan(t) ==
  LET down(t1, u) ==
        IF u.exc # "none" THEN [t |-> [t1 EXCEPT !.bm = u.bm], exc |-> u.exc]
        ELSE
          LET node == u.bm.pool[t1.currentPageData] IN
          setPageScan([t1 EXCEPT
                         !.bm = u.bm,
                         !.currentPageNum =
                            node.pageNoArray[findSmallerKeyIndex(node, t1.lowValInt)]])
      look(t1) ==
        IF isLeaf(t1.bm.pool[t1.currentPageData])
          THEN [t |-> t1, exc |-> "none"]
          ELSE down(t1, unPinPage(t1.bm, IndexFile, t1.currentPageNum, FALSE))
      read(r) ==
        IF r.exc # "none" THEN [t |-> [t EXCEPT !.bm = r.bm], exc |-> r.exc]
        ELSE look([t EXCEPT !.bm = r.bm, !.currentPageData = r.frame])
  IN read(readPage(t.bm, IndexFile, t.currentPageNum))

entryScanIndex(t) ==
  LET node       == t.bm.pool[t.currentPageData]
      entryIndex == findIndexLeaf(node, t.lowValInt, t.lowOp = "GTE")
  IN IF t.lowOp # "GTE" /\ t.lowValInt = INT_MAX /\ t.signedOverflow = "trap"
       THEN [t |-> t, exc |-> "SignedOverflowTrap"]
     ELSE IF entryIndex = -1
       THEN moveToNext(t, node)
     ELSE [t |-> [t EXCEPT !.nextEntry = entryIndex], exc |-> "none"]

\* endScan without the test of scanExecuting
endScanUnchecked(t) ==
  LET ended(u) ==
        [t |-> [t EXCEPT !.scanExecuting = FALSE, !.bm = u.bm], exc |-> u.exc]
  IN ended(unPinPage(t.bm, IndexFile, t.currentPageNum, FALSE))

endScan(t) ==
  LET ended(u) ==
        [t |-> [t EXCEPT !.scanExecuting = FALSE, !.bm = u.bm], exc |-> u.exc]
  IN IF ~t.scanExecuting THEN [t |-> t, exc |-> "ScanNotInitialized"]
     ELSE ended(unPinPage(t.bm, IndexFile, t.currentPageNum, FALSE))

\* the test startScan and scanNext make on the entry the scan stands on
ScanEntryOutOfRange(t) ==
  LET node   == t.bm.pool[t.currentPageData]
      outRid == node.ridArray[t.nextEntry]
      val    == node.keyArray[t.nextEntry]
  IN \/ (outRid.page_number = 0 /\ outRid.slot_number = 0)
     \/ val > t.highValInt
     \/ (val = t.highValInt /\ t.highOp = "LT")

\* startScan that marks the scan as executing before it tests the range
startScanFlagBeforeRange(t, lowValParm, lowOpParm, highValParm, highOpParm) ==
  LET noKey(en) ==
        IF en.exc # "none" THEN en
        ELSE [t |-> en.t, exc |-> "NoSuchKeyFound"]
      entry(e) ==
        IF e.exc # "none" THEN e
        ELSE IF ScanEntryOutOfRange(e.t) THEN noKey(endScan(e.t))
        ELSE e
      page(p) ==
        IF p.exc # "none" THEN p
        ELSE entry(entryScanIndex(p.t))
      t1 == [t EXCEPT !.lowValInt = lowValParm, !.highValInt = highValParm,
                      !.scanExecuting = TRUE]
  IN
  IF lowOpParm # "GT" /\ lowOpParm # "GTE" THEN [t |-> t, exc |-> "BadOpcodes"]
  ELSE IF highOpParm # "LT" /\ highOpParm # "LTE"
    THEN [t |-> t, exc |-> "BadOpcodes"]
  ELSE IF t1.lowValInt > t1.highValInt THEN [t |-> t1, exc |-> "BadScanrange"]
  ELSE page(setPageScan([t1 EXCEPT !.lowOp = lowOpParm, !.highOp = highOpParm,
                                   !.currentPageNum = t1.rootPageNo]))

startScan(t, lowValParm, lowOpParm, highValParm, highOpParm) ==
  LET noKey(en) ==
        IF en.exc # "none" THEN en
        ELSE [t |-> en.t, exc |-> "NoSuchKeyFound"]
      entry(e) ==
        IF e.exc # "none" THEN e
        ELSE IF ScanEntryOutOfRange(e.t) THEN noKey(endScan(e.t))
        ELSE e
      page(p) ==
        IF p.exc # "none" THEN p
        ELSE entry(entryScanIndex(p.t))
      t1 == [t EXCEPT !.lowValInt = lowValParm, !.highValInt = highValParm]
  IN
  IF lowOpParm # "GT" /\ lowOpParm # "GTE" THEN [t |-> t, exc |-> "BadOpcodes"]
  ELSE IF highOpParm # "LT" /\ highOpParm # "LTE"
    THEN [t |-> t, exc |-> "BadOpcodes"]
  ELSE IF t1.lowValInt > t1.highValInt THEN [t |-> t1, exc |-> "BadScanrange"]
  ELSE page(setPageScan([t1 EXCEPT !.lowOp = lowOpParm, !.highOp = highOpParm,
                                   !.scanExecuting = TRUE,
                                   !.currentPageNum = t1.rootPageNo]))

setNextEntry(t) ==
  LET t1   == [t EXCEPT !.nextEntry = @ + 1]
      node == t1.bm.pool[t1.currentPageData]
  IN IF t1.nextEntry >= INTARRAYLEAFSIZE
       THEN moveToNext(t1, node)
     ELSE IF node.ridArray[t1.nextEntry].page_number = 0
       THEN moveToNext(t1, node)
     ELSE [t |-> t1, exc |-> "none"]

scanNext(t) ==
  LET node   == t.bm.pool[t.currentPageData]
      outRid == node.ridArray[t.nextEntry]
      return(s) == [t |-> s.t, exc |-> s.exc, outRid |-> outRid]
  IN IF ~t.scanExecuting
       THEN [t |-> t, exc |-> "ScanNotInitialized", outRid |-> EmptyRid]
     ELSE IF ScanEntryOutOfRange(t)
       THEN [t |-> t, exc |-> "IndexScanCompleted", outRid |-> outRid]
     ELSE return(setNextEntry(t))

\* BTreeIndex::~BTreeIndex, up to the release of the file handle
BTreeIndexDestructor(t) ==
  LET flushed(t1, f) == [t |-> [t1 EXCEPT !.bm = f.bm], exc |-> f.exc]
      flush(e) ==
        IF e.exc # "none" THEN e
        ELSE flushed(e.t, flushFile(e.t.bm, IndexFile))
  IN flush(IF t.scanExecuting THEN endScan(t) ELSE [t |-> t, exc |-> "none"])

RECURSIVE SumPins(_, _)
SumPins(desc, i) == IF i < 0 THEN 0 ELSE desc[i].pinCnt + SumPins(desc, i - 1)
\* the pins held on the pool, all frames together
PinTotal == SumPins(bufDescTable, numBufs - 1)

T == [bm |-> BM, rootPageNo |-> rootPageNo, scanExecuting |-> scanExecuting,
      nextEntry |-> nextEntry, currentPageNum |-> currentPageNum,
      currentPageData |-> currentPageData, lowValInt |-> lowValInt,
      highValInt |-> highValInt, lowOp |-> lowOp, highOp |-> highOp,
      signedOverflow |-> signedOverflow]

SetT(t) ==
  /\ SetBM(t.bm)
  /\ rootPageNo' = t.rootPageNo
  /\ scanExecuting' = t.scanExecuting
  /\ nextEntry' = t.nextEntry
  /\ currentPageNum' = t.currentPageNum
  /\ currentPageData' = t.currentPageData
  /\ lowValInt' = t.lowValInt
  /\ highValInt' = t.highValInt
  /\ lowOp' = t.lowOp
  /\ highOp' = t.highOp

(***************************************************************************)
(* BufMgr::BufMgr(IndexPoolFrames), then BTreeIndex::BTreeIndex up to the  *)
(* scan of the relation: the index file holds its meta page, and the root  *)
(* is one empty leaf, allocated and unpinned dirty.  The tuples of the     *)
(* relation are the insertEntry calls that follow.                         *)
(***************************************************************************)
Keys == 1 .. MaxKey
Operators == {"LT", "LTE", "GTE", "GT"}

Init ==
  /\ numBufs = IndexPoolFrames
  /\ LET b0 == [desc  |-> [i \in 0 .. (IndexPoolFrames - 1) |-> ClearedDesc],
                pool  |-> [i \in 0 .. (IndexPoolFrames - 1) |-> ZeroPage],
                hash  |-> {},
                clock |-> IndexPoolFrames - 1,
                disk  |-> [f \in {IndexFile} |->
                             [p \in 0 .. IndexFilePages |->
                                IF p = 0 THEN <<MetaPage>> ELSE NoPage]]]
         a  == allocLeafNode(b0)
         u  == unPinPage(a.bm, IndexFile, a.pageNo, TRUE)
     IN /\ bufDescTable = u.bm.desc
        /\ bufPool = u.bm.pool
        /\ hashTable = u.bm.hash
        /\ clockHand = u.bm.clock
        /\ disk = u.bm.disk
        /\ rootPageNo = a.pageNo
  /\ scanExecuting = FALSE
  /\ nextEntry = 0
  /\ currentPageNum = InvalidPageNo
  /\ currentPageData = NoFrame
  /\ lowValInt = 0
  /\ highValInt = 0
  /\ lowOp = "LT"
  /\ highOp = "LT"
  /\ inserted = <<>>
  /\ emitted = <<>>
  /\ signedOverflow = "wrap"
  /\ lastOp = NoCall
  /\ committed = <<>>
  /\ nextMut = 1

(***************************************************************************)
(* The calls of a user of the index.  The entries are inserted first, as  *)
(* the constructor does for the tuples of the relation; one scan of the    *)
(* index follows.                                                          *)
(***************************************************************************)
InsertEntry(key) ==
  /\ lastOp.op \in {"none", "insertEntry"}
  /\ lastOp.exc = "none"
  /\ Len(inserted) < MaxInserts
  /\ Cardinality(FileFreePages(disk, IndexFile)) >= 3
  /\ LET rid == [page_number |-> Len(inserted) + 1, slot_number |-> 1]
         r   == insertEntry(T, key, rid)
     IN /\ SetT(r.t)
        /\ lastOp' = [op |-> "insertEntry", exc |-> r.exc, frame |-> NoFrame,
                      steps |-> 0]
        /\ inserted' = IF r.exc = "none" THEN Append(inserted, <<key, rid>>)
                       ELSE inserted
  /\ UNCHANGED <<emitted, clientVars, signedOverflow>>

StartScan(lowValParm, lowOpParm, highValParm, highOpParm) ==
  /\ lastOp.op \in {"none", "insertEntry"}
  /\ LET r == startScan(T, lowValParm, lowOpParm, highValParm, highOpParm)
     IN /\ SetT(r.t)
        /\ lastOp' = [op |-> "startScan", exc |-> r.exc, frame |-> NoFrame,
                      steps |-> 0]
  /\ emitted' = <<>>
  /\ UNCHANGED <<inserted, clientVars, signedOverflow>>

\* startScan called again, with the arguments of the scan that is executing
StartScanDuringScan ==
  /\ scanExecuting
  /\ lastOp.op = "startScan"
  /\ lastOp.exc = "none"
  /\ PinTotal <= MaxScanPins
  /\ LET r == startScan(T, lowValInt, lowOp, highValInt, highOp)
     IN /\ SetT(r.t)
        /\ lastOp' = [op |-> "startScan", exc |-> r.exc, frame |-> NoFrame,
                      steps |-> 0]
  /\ emitted' = <<>>
  /\ UNCHANGED <<inserted, clientVars, signedOverflow>>

\* A caller that saw BufferExceededException from startScan or scanNext does
\* not read on: the position of the scan is then undefined (moveToNext has
\* unpinned the page and left nextEntry past its arrays).
ScanNext ==
  /\ lastOp.exc # "BufferExceeded"
  /\ lastOp.exc # "SignedOverflowTrap"
  /\ lastOp.op # "destructor"
  /\ LET r == scanNext(T)
     IN /\ SetT(r.t)
        /\ lastOp' = [op |-> "scanNext", exc |-> r.exc, frame |-> NoFrame,
                      steps |-> 0]
        /\ emitted' = IF r.exc = "none" THEN Append(emitted, r.outRid)
                      ELSE emitted
  /\ UNCHANGED <<inserted, clientVars, signedOverflow>>

EndScan ==
  /\ lastOp.exc # "SignedOverflowTrap"
  /\ lastOp.op # "destructor"
  /\ LET r == endScan(T)
     IN /\ SetT(r.t)
        /\ lastOp' = [op |-> "endScan", exc |-> r.exc, frame |-> NoFrame,
                      steps |-> 0]
  /\ UNCHANGED <<inserted, emitted, clientVars, signedOverflow>>

Next ==
  \/ \E key \in Keys : InsertEntry(key)
  \/ \E lo \in Keys, hi \in Keys, loOp \in Operators, hiOp \in Operators :
        StartScan(lo, loOp, hi, hiOp)
  \/ StartScanDuringScan
  \/ ScanNext
  \/ EndScan

Spec == Init /\ [][Next]_vars

(***************************************************************************)
(* The same index over BufMgr(SmallPoolFrames): a pool too small for the   *)
(* pages an insertion holds at once, so that allocBuf raises               *)
(* BufferExceededException inside the operations of the tree.              *)
(***************************************************************************)
InitSmallPool ==
  /\ numBufs = SmallPoolFrames
  /\ LET b0 == [desc  |-> [i \in 0 .. (SmallPoolFrames - 1) |-> ClearedDesc],
                pool  |-> [i \in 0 .. (SmallPoolFrames - 1) |-> ZeroPage],
                hash  |-> {},
                clock |-> SmallPoolFrames - 1,
                disk  |-> [f \in {IndexFile} |->
                             [p \in 0 .. IndexFilePages |->
                                IF p = 0 THEN <<MetaPage>> ELSE NoPage]]]
         a  == allocLeafNode(b0)
         u  == unPinPage(a.bm, IndexFile, a.pageNo, TRUE)
     IN /\ bufDescTable = u.bm.desc
        /\ bufPool = u.bm.pool
        /\ hashTable = u.bm.hash
        /\ clockHand = u.bm.clock
        /\ disk = u.bm.disk
        /\ rootPageNo = a.pageNo
  /\ scanExecuting = FALSE
  /\ nextEntry = 0
  /\ currentPageNum = InvalidPageNo
  /\ currentPageData = NoFrame
  /\ lowValInt = 0
  /\ highValInt = 0
  /\ lowOp = "LT"
  /\ highOp = "LT"
  /\ inserted = <<>>
  /\ emitted = <<>>
  /\ signedOverflow = "wrap"
  /\ lastOp = NoCall
  /\ committed = <<>>
  /\ nextMut = 1

SpecSmallPool == InitSmallPool /\ [][Next]_vars

(***************************************************************************)
(* The index built from a relation whose tuples arrive in strictly         *)
(* increasing key order: each insertEntry carries a key greater than the   *)
(* one before it.                                                          *)
(***************************************************************************)
AscKeys == 1 .. MaxAscKey

InsertAscending(key) ==
  /\ inserted # <<>> => key > inserted[Len(inserted)][1]
  /\ InsertEntry(key)

NextAscending == \E key \in AscKeys : InsertAscending(key)

SpecAscending == Init /\ [][NextAscending]_vars

(***************************************************************************)
(* The index through to its destruction: the calls of Next, and the        *)
(* destructor, after which the object takes no more calls.                 *)
(***************************************************************************)
Destroy ==
  /\ lastOp.op # "destructor"
  /\ LET r == BTreeIndexDestructor(T)
     IN /\ SetT(r.t)
        /\ lastOp' = [op |-> "destructor", exc |-> r.exc, frame |-> NoFrame,
                      steps |-> 0]
  /\ UNCHANGED <<inserted, emitted, clientVars, signedOverflow>>

NextLifetime ==
  \/ \E key \in Keys : InsertEntry(key)
  \/ \E lo \in Keys, hi \in Keys, loOp \in Operators, hiOp \in Operators :
        StartScan(lo, loOp, hi, hiOp)
  \/ StartScanDuringScan
  \/ ScanNext
  \/ EndScan
  \/ Destroy

SpecLifetime == Init /\ [][NextLifetime]_vars

(***************************************************************************)
(* The index with a caller that, while a scan is executing, calls          *)
(* startScan with arguments the validation of startScan rejects.           *)
(***************************************************************************)
RejectedArguments(lowValParm, lowOpParm, highValParm, highOpParm) ==
  \/ (lowOpParm # "GT" /\ lowOpParm # "GTE")
  \/ (highOpParm # "LT" /\ highOpParm # "LTE")
  \/ lowValParm > highValParm

StartScanRejected(lowValParm, lowOpParm, highValParm, highOpParm) ==
  /\ scanExecuting
  /\ lastOp.op \in {"startScan", "scanNext"}
  /\ lastOp.exc = "none"
  /\ RejectedArguments(lowValParm, lowOpParm, highValParm, highOpParm)
  /\ LET r == startScan(T, lowValParm, lowOpParm, highValParm, highOpParm)
     IN /\ SetT(r.t)
        /\ lastOp' = [op |-> "startScan", exc |-> r.exc, frame |-> NoFrame,
                      steps |-> 0]
  /\ UNCHANGED <<inserted, emitted, clientVars, signedOverflow>>

NextRestart ==
  \/ \E key \in Keys : InsertEntry(key)
  \/ \E lo \in Keys, hi \in Keys, loOp \in Operators, hiOp \in Operators :
        StartScan(lo, loOp, hi, hiOp)
  \/ StartScanDuringScan
  \/ ScanNext
  \/ EndScan
  \/ \E lo \in Keys, hi \in Keys, loOp \in Operators, hiOp \in Operators :
        StartScanRejected(lo, loOp, hi, hiOp)

SpecRestart == Init /\ [][NextRestart]_vars

(***************************************************************************)
(* The index over keys that reach the largest int, in a build of either    *)
(* kind: a program stopped by a trap takes no more calls.                  *)
(***************************************************************************)
WideKeys == {1, INT_MAX}

InitWide ==
  /\ numBufs = IndexPoolFrames
  /\ LET b0 == [desc  |-> [i \in 0 .. (IndexPoolFrames - 1) |-> ClearedDesc],
                pool  |-> [i \in 0 .. (IndexPoolFrames - 1) |-> ZeroPage],
                hash  |-> {},
                clock |-> IndexPoolFrames - 1,
                disk  |-> [f \in {IndexFile} |->
                             [p \in 0 .. IndexFilePages |->
                                IF p = 0 THEN <<MetaPage>> ELSE NoPage]]]
         a  == allocLeafNode(b0)
         u  == unPinPage(a.bm, IndexFile, a.pageNo, TRUE)
     IN /\ bufDescTable = u.bm.desc
        /\ bufPool = u.bm.pool
        /\ hashTable = u.bm.hash
        /\ clockHand = u.bm.clock
        /\ disk = u.bm.disk
        /\ rootPageNo = a.pageNo
  /\ scanExecuting = FALSE
  /\ nextEntry = 0
  /\ currentPageNum = InvalidPageNo
  /\ currentPageData = NoFrame
  /\ lowValInt = 0
  /\ highValInt = 0
  /\ lowOp = "LT"
  /\ highOp = "LT"
  /\ inserted = <<>>
  /\ emitted = <<>>
  /\ signedOverflow \in SignedOverflowOutcomes
  /\ lastOp = NoCall
  /\ committed = <<>>
  /\ nextMut = 1

InsertWide(key) ==
  /\ Len(inserted) < MaxWideInserts
  /\ InsertEntry(key)

NextWide ==
  \/ \E key \in WideKeys : InsertWide(key)
  \/ \E lo \in WideKeys, hi \in WideKeys, loOp \in Operators, hiOp \in Operators :
        StartScan(lo, loOp, hi, hiOp)
  \/ ScanNext
  \/ EndScan

SpecWide == InitWide /\ [][NextWide]_vars

(***************************************************************************)
(* Properties of the buffer manager.                                       *)
(***************************************************************************)
ValidFrames == {i \in Frames : bufDescTable[i].valid}
AllFramesPinned ==
  \A i \in Frames : bufDescTable[i].valid /\ bufDescTable[i].pinCnt > 0
\* the last call ran allocBuf (a readPage miss or an allocPage)
AllocBufRan(call) == call.steps > 0

\* C5: at most one valid frame descriptor holds any given (file, pageNo).
C5_Uniqueness ==
  \A i \in Frames, j \in Frames :
    (/\ bufDescTable[i].valid
     /\ bufDescTable[j].valid
     /\ bufDescTable[i].file = bufDescTable[j].file
     /\ bufDescTable[i].pageNo = bufDescTable[j].pageNo) => i = j

\* a readPage of a resident page returned while every frame held a page
C5_Witness ==
  /\ lastOp.op = "readPage"
  /\ lastOp.exc = "none"
  /\ lastOp.steps = 0
  /\ ValidFrames = Frames

\* C6: between operations, whether they returned or raised, the hash index
\* holds exactly the entries (file, pageNo) -> frameNo of the valid descriptors.
C6_HashExact ==
  hashTable = {<<bufDescTable[i].file, bufDescTable[i].pageNo, i>> :
                  i \in ValidFrames}

\* an operation raised while the pool held pages
C6_Witness ==
  /\ lastOp.exc \in {"BufferExceeded", "PageNotPinned", "PagePinned"}
  /\ hashTable # {}

\* C7: a readPage or allocPage call leaves every pinned frame with its page,
\* its bytes and its pins.
C7_PinnedNotEvicted ==
  [][lastOp'.op \in {"readPage", "allocPage"} =>
       \A i \in Frames :
         (bufDescTable[i].valid /\ bufDescTable[i].pinCnt > 0) =>
           /\ bufDescTable'[i].valid
           /\ bufDescTable'[i].file = bufDescTable[i].file
           /\ bufDescTable'[i].pageNo = bufDescTable[i].pageNo
           /\ bufDescTable'[i].pinCnt >= bufDescTable[i].pinCnt
           /\ bufPool'[i] = bufPool[i]
           /\ (AllocBufRan(lastOp') => lastOp'.frame # i)]_vars

\* allocBuf chose a victim while another frame was pinned
C7_Witness ==
  /\ lastOp.op \in {"readPage", "allocPage"}
  /\ lastOp.exc = "none"
  /\ AllocBufRan(lastOp)
  /\ \E i \in Frames :
       i # lastOp.frame /\ bufDescTable[i].valid /\ bufDescTable[i].pinCnt > 0

\* C8: allocBuf raises BufferExceeded only when every frame of the pool is
\* valid and pinned (a raising allocBuf changes no valid flag and no pinCnt).
C8_ExceededOnlyIfAllPinned ==
  lastOp.exc = "BufferExceeded" => AllFramesPinned

\* C9: when every frame is valid and pinned, allocBuf ends after at most two
\* sweeps and one more advance of the hand, and raises BufferExceeded.
C9_AllPinnedRaises ==
  [][(AllFramesPinned /\ AllocBufRan(lastOp')) =>
       /\ lastOp'.exc = "BufferExceeded"
       /\ lastOp'.steps <= 2 * numBufs + 1]_vars

\* allocBuf raised with every frame pinned, after clearing refbits on the way
C9_Witness ==
  /\ lastOp.exc = "BufferExceeded"
  /\ AllFramesPinned
  /\ lastOp.steps = 2 * numBufs + 1

\* C10: readPage returns bytes that contain every mutation of the page that
\* was unpinned with dirty = true.
C10_ReadSeesCommitted ==
  (lastOp.op = "readPage" /\ lastOp.exc = "none") =>
     committed[bufDescTable[lastOp.frame].file][bufDescTable[lastOp.frame].pageNo]
        \subseteq bufPool[lastOp.frame]

\* a page with a mutation unpinned dirty was evicted and read back from disk
C10_Witness ==
  /\ lastOp.op = "readPage"
  /\ lastOp.exc = "none"
  /\ AllocBufRan(lastOp)
  /\ committed[bufDescTable[lastOp.frame].file][bufDescTable[lastOp.frame].pageNo] # {}


\* the frames that hold a page whose dirty bit is set
DirtyFrames == {i \in Frames : bufDescTable[i].valid /\ bufDescTable[i].dirty}
\* the step takes frame i away from the page it holds
Released(i) ==
  \/ ~bufDescTable'[i].valid
  \/ bufDescTable'[i].file # bufDescTable[i].file
  \/ bufDescTable'[i].pageNo # bufDescTable[i].pageNo
\* after the step the file holds the bytes frame i had
WrittenBack(i) ==
  LET d == bufDescTable[i] IN
  /\ d.pageNo \in DOMAIN disk'[d.file]
  /\ disk'[d.file][d.pageNo] = <<bufPool[i]>>
FramesOf(file) == {i \in Frames : bufDescTable[i].valid /\ bufDescTable[i].file = file}
PinnedFramesOf(file) == {i \in FramesOf(file) : bufDescTable[i].pinCnt > 0}

\* C11 (as stated): whenever an operation clears or reassigns the descriptor
\* of a frame whose dirty bit is set (allocBuf, flushFile, disposePage), the
\* bytes of the frame are in its file afterwards.
C11_DirtyWrittenBeforeClear ==
  [][\A i \in DirtyFrames : Released(i) => WrittenBack(i)]_vars

\* C11 (amended): whenever allocBuf (in readPage or allocPage) or flushFile
\* clears or reassigns the descriptor of a frame whose dirty bit is set, the
\* bytes of the frame are in its file afterwards; disposePage clears the
\* descriptor of the page it deletes without writing it.
C11_DirtyWrittenUnlessDisposed ==
  [][\A i \in DirtyFrames :
        Released(i) /\ lastOp'.op # "disposePage" => WrittenBack(i)]_vars

\* a dirty page with a mutation has left the pool by eviction or flush and
\* its bytes are in the file
C11_Witness ==
  /\ lastOp.op \in {"readPage", "allocPage", "flushFile"}
  /\ \E f \in ClientFileSet, p \in ClientPageNos :
       /\ committed[f][p] # {}
       /\ ~hashFound(hashTable, f, p)
       /\ FilePageExists(disk, f, p)
       /\ FileReadPage(disk, f, p) = committed[f][p]

\* C12: when flushFile(f) returns, the file holds the latest bytes of every
\* page of f that was in the pool with its dirty bit set, the bytes of every
\* page of f unpinned with dirty = true are in the file, and no frame of f
\* is valid.
C12_FlushDurable ==
  [][\A f \in ClientFileSet :
        FlushFile(f) /\ lastOp'.exc = "none" =>
          /\ \A i \in FramesOf(f) : bufDescTable[i].dirty => WrittenBack(i)
          /\ \A p \in ClientPageNos :
                FilePageExists(disk, f, p) =>
                  committed[f][p] \subseteq FileReadPage(disk', f, p)
          /\ \A i \in Frames :
                ~(bufDescTable'[i].valid /\ bufDescTable'[i].file = f)]_vars

\* flushFile has returned and wrote a mutated page it found dirty
C12_Witness ==
  /\ lastOp.op = "flushFile"
  /\ lastOp.exc = "none"
  /\ \E f \in ClientFileSet, p \in ClientPageNos :
       /\ committed[f][p] # {}
       /\ FilePageExists(disk, f, p)
       /\ FileReadPage(disk, f, p) = committed[f][p]
       /\ \A i \in Frames : ~bufDescTable[i].valid

\* C13: flushFile(f) called when no frame of f is pinned raises nothing,
\* whatever else the pool holds; it clears the frames of f and leaves every
\* other frame, its bytes and its hash entry as they were.
C13_FlushUnpinnedReturns ==
  [][\A f \in ClientFileSet :
        FlushFile(f) /\ PinnedFramesOf(f) = {} =>
          /\ lastOp'.exc = "none"
          /\ \A i \in FramesOf(f) : ~bufDescTable'[i].valid
          /\ \A i \in Frames \ FramesOf(f) :
                /\ bufDescTable'[i] = bufDescTable[i]
                /\ bufPool'[i] = bufPool[i]
          /\ hashTable' = {e \in hashTable : e[1] # f}]_vars

\* C14: a flushFile(f) that raises PagePinned, a frame of f being pinned,
\* has performed no write-back and cleared no frame: the files, the
\* descriptors and the hash index are as they were before the call.
C14_PinnedFlushNoEffect ==
  [][\A f \in ClientFileSet :
        FlushFile(f) /\ PinnedFramesOf(f) # {} /\ lastOp'.exc = "PagePinned" =>
          /\ disk' = disk
          /\ bufDescTable' = bufDescTable
          /\ hashTable' = hashTable]_vars

\* every frame holds a page that is unpinned, dirty and recently referenced
AllUnpinnedDirtyReferenced ==
  \A i \in Frames : /\ bufDescTable[i].valid
                     /\ bufDescTable[i].pinCnt = 0
                     /\ bufDescTable[i].dirty
                     /\ bufDescTable[i].refbit
\* the frames whose page is no longer the one they held
Evicted ==
  {i \in Frames : \/ bufDescTable'[i].file # bufDescTable[i].file
                   \/ bufDescTable'[i].pageNo # bufDescTable[i].pageNo}

\* C21: when every frame holds an unpinned dirty page with its refbit set, a
\* readPage of a page that is not resident succeeds after one sweep of the
\* clock (numBufs frames passed, the next one taken), writes back the one
\* page it evicts and nothing else, and leaves the other pages resident with
\* refbit = false.
C21_EvictionAfterSweep ==
  [][\A f \in ClientFileSet, p \in ClientPageNos :
        /\ AllUnpinnedDirtyReferenced
        /\ ~hashFound(hashTable, f, p)
        /\ ReadPage(f, p)
        => /\ lastOp'.exc = "none"
           /\ lastOp'.steps <= numBufs + 1
           /\ Evicted = {lastOp'.frame}
           /\ \A i \in Evicted :
                 /\ WrittenBack(i)
                 /\ \A g \in ClientFileSet, q \in ClientPageNos :
                       disk'[g][q] # disk[g][q]
                         => g = bufDescTable[i].file /\ q = bufDescTable[i].pageNo
                 /\ bufDescTable'[i] = SetDesc(f, p)
           /\ \A i \in Frames \ Evicted :
                 /\ bufDescTable'[i] = [bufDescTable[i] EXCEPT !.refbit = FALSE]
                 /\ bufPool'[i] = bufPool[i]
                 /\ hashFound(hashTable', bufDescTable[i].file,
                              bufDescTable[i].pageNo)]_vars

\* a readPage has just evicted a dirty page from a full pool: the page read
\* is the only one with its refbit set
C21_Witness ==
  /\ lastOp.op = "readPage"
  /\ lastOp.exc = "none"
  /\ lastOp.steps = numBufs + 1
  /\ \A i \in Frames :
        /\ bufDescTable[i].valid
        /\ i # lastOp.frame =>
              bufDescTable[i].dirty /\ ~bufDescTable[i].refbit
                /\ bufDescTable[i].pinCnt = 0
  /\ \E f \in ClientFileSet, p \in ClientPageNos :
        /\ committed[f][p] # {}
        /\ ~hashFound(hashTable, f, p)
        /\ FilePageExists(disk, f, p)
        /\ FileReadPage(disk, f, p) = committed[f][p]

\* the buffer manager's own state is left as it was
BufMgrUnchanged ==
  /\ bufDescTable' = bufDescTable
  /\ bufPool' = bufPool
  /\ hashTable' = hashTable
  /\ disk' = disk
  /\ clockHand' = clockHand

\* C27: no pin count goes below zero; unPinPage of a resident page whose
\* pinCnt is 0 raises PageNotPinnedException and changes nothing, and
\* unPinPage of a page that is not resident returns without an error and
\* changes nothing.
C27_UnpinNeverBelowZero ==
  [][/\ \A i \in Frames : bufDescTable'[i].pinCnt >= 0
     /\ \A f \in ClientFileSet, p \in ClientPageNos, dirty \in BOOLEAN :
          UnPinPage(f, p, dirty)
          => /\ (/\ hashFound(hashTable, f, p)
                 /\ bufDescTable[hashFrame(hashTable, f, p)].pinCnt = 0)
                  => lastOp'.exc = "PageNotPinned" /\ BufMgrUnchanged
             /\ ~hashFound(hashTable, f, p)
                  => lastOp'.exc = "none" /\ BufMgrUnchanged]_vars

\* an unPinPage with dirty = true was refused on a clean resident page that
\* nobody pins
C27_Witness ==
  /\ lastOp.op = "unPinPage"
  /\ lastOp.exc = "PageNotPinned"
  /\ \E i \in Frames : /\ bufDescTable[i].valid
                        /\ bufDescTable[i].pinCnt = 0
                        /\ ~bufDescTable[i].dirty

\* C28: readPage of a resident page returns the frame that holds it, sets
\* its refbit and adds one to its pinCnt, and touches neither the disk nor
\* any other frame; readPage of a page that is not resident, when allocBuf
\* finds a frame, loads the page into that frame and sets its descriptor to
\* (file, pageNo, valid, pinCnt = 1, refbit = true, dirty = false).
C28_ReadPageFrameEffect ==
  [][\A f \in ClientFileSet, p \in ClientPageNos :
        ReadPage(f, p)
        => /\ hashFound(hashTable, f, p)
                => /\ lastOp'.exc = "none"
                   /\ lastOp'.frame = hashFrame(hashTable, f, p)
                   /\ bufDescTable' =
                        [bufDescTable EXCEPT
                           ![hashFrame(hashTable, f, p)].refbit = TRUE,
                           ![hashFrame(hashTable, f, p)].pinCnt = @ + 1]
                   /\ bufPool' = bufPool
                   /\ hashTable' = hashTable
                   /\ disk' = disk
                   /\ clockHand' = clockHand
           /\ ~hashFound(hashTable, f, p) /\ lastOp'.exc = "none"
                => /\ lastOp'.frame \in Frames
                   /\ bufDescTable'[lastOp'.frame] =
                        [file |-> f, pageNo |-> p, valid |-> TRUE,
                         dirty |-> FALSE, refbit |-> TRUE, pinCnt |-> 1]
                   /\ bufPool'[lastOp'.frame] = FileReadPage(disk, f, p)
                   /\ hashLookup(hashTable', f, p) = {<<f, p, lastOp'.frame>>}
                   /\ \A i \in Frames \ {lastOp'.frame} :
                         bufPool'[i] = bufPool[i]]_vars

\* a readPage found its page resident, dirty and with its refbit cleared by
\* an earlier sweep, and pinned it
C28_Witness ==
  /\ lastOp.op = "readPage"
  /\ lastOp.exc = "none"
  /\ lastOp.steps = 0
  /\ lastOp.frame \in Frames
  /\ bufDescTable[lastOp.frame].dirty
  /\ bufDescTable[lastOp.frame].refbit
  /\ bufDescTable[lastOp.frame].pinCnt = 1
  /\ \E i \in Frames \ {lastOp.frame} :
        bufDescTable[i].valid /\ ~bufDescTable[i].refbit

\* C34: if allocPage fails with BufferExceededException, no new page has
\* been allocated in the file, and the descriptors of the pool (valid, file,
\* pageNo, pinCnt, dirty) and the hash index are the ones before the call.
C34_FailedAllocPageNoEffect ==
  [][lastOp'.op = "allocPage" /\ lastOp'.exc = "BufferExceeded"
       => /\ \A f \in ClientFileSet, p \in ClientPageNos :
               FilePageExists(disk', f, p) <=> FilePageExists(disk, f, p)
          /\ hashTable' = hashTable
          /\ \A i \in Frames :
               /\ bufDescTable'[i].valid = bufDescTable[i].valid
               /\ bufDescTable'[i].file = bufDescTable[i].file
               /\ bufDescTable'[i].pageNo = bufDescTable[i].pageNo
               /\ bufDescTable'[i].pinCnt = bufDescTable[i].pinCnt
               /\ bufDescTable'[i].dirty = bufDescTable[i].dirty]_vars

(***************************************************************************)
(* Properties of the B+ tree.  The tree is read as the index reads it: the *)
(* bytes of a page are those of its frame when the page is in the pool and *)
(* those in the file otherwise.                                            *)
(***************************************************************************)
PageBytes(p) ==
  IF hashFound(hashTable, IndexFile, p)
    THEN bufPool[hashFrame(hashTable, IndexFile, p)]
    ELSE FileReadPage(disk, IndexFile, p)

IndexPages == {p \in 1 .. IndexFilePages : FilePageExists(disk, IndexFile, p)}
AllLeaves == {p \in IndexPages : isLeaf(PageBytes(p))}

\* the valid prefix of a leaf: the entries before the first empty rid
LeafEntries(node) ==
  LET empty == {i \in LeafSlots : node.ridArray[i] = EmptyRid}
      n     == IF empty = {} THEN INTARRAYLEAFSIZE
               ELSE CHOOSE i \in empty : \A j \in empty : i <= j
  IN [i \in 1 .. n |-> <<node.keyArray[i - 1], node.ridArray[i - 1]>>]

\* the child pointers an internal node stores
Children(node) == {node.pageNoArray[i] : i \in NonLeafPageSlots} \ {0}

RECURSIVE LeftmostLeaf(_, _)
LeftmostLeaf(p, fuel) ==
  IF p = 0 \/ fuel = 0 THEN 0
  ELSE IF isLeaf(PageBytes(p)) THEN p
  ELSE LeftmostLeaf(PageBytes(p).pageNoArray[0], fuel - 1)

\* the leaves met from leaf p on by following rightSibPageNo
RECURSIVE ChainFrom(_, _)
ChainFrom(p, fuel) ==
  IF p = 0 \/ fuel = 0 THEN <<>>
  ELSE <<p>> \o ChainFrom(PageBytes(p).rightSibPageNo, fuel - 1)

LeafChain == ChainFrom(LeftmostLeaf(rootPageNo, IndexFilePages), IndexFilePages + 1)

RECURSIVE Flatten(_)
Flatten(seqs) ==
  IF seqs = <<>> THEN <<>> ELSE Head(seqs) \o Flatten(Tail(seqs))

ChainEntries == Flatten([i \in 1 .. Len(LeafChain) |-> LeafEntries(PageBytes(LeafChain[i]))])

\* the leaves under page p with the depth each is found at
RECURSIVE LeavesUnder(_, _, _)
LeavesUnder(p, depth, fuel) ==
  IF fuel = 0 THEN {}
  ELSE IF isLeaf(PageBytes(p)) THEN {<<p, depth>>}
  ELSE UNION {LeavesUnder(c, depth + 1, fuel - 1) : c \in Children(PageBytes(p))}

RootLeaves == LeavesUnder(rootPageNo, 0, IndexFilePages)

\* the leaf the descent for key k ends in (insert and setPageScan)
RECURSIVE RouteLeaf(_, _, _)
RouteLeaf(p, k, fuel) ==
  IF p = 0 \/ fuel = 0 THEN 0
  ELSE IF isLeaf(PageBytes(p)) THEN p
  ELSE RouteLeaf(PageBytes(p).pageNoArray[findSmallerKeyIndex(PageBytes(p), k)],
                 k, fuel - 1)

NonDecreasing(keys) == \A i, j \in 1 .. Len(keys) : i < j => keys[i] <= keys[j]
Occurrences(seq, x) == Cardinality({i \in 1 .. Len(seq) : seq[i] = x})
SeqRange(seq) == {seq[i] : i \in 1 .. Len(seq)}
KeysOf(entries) == [i \in 1 .. Len(entries) |-> entries[i][1]]
NoScanYet == lastOp.op \in {"none", "insertEntry"}

\* the rids a scan of the range of the current scan has to return
InScanRange(key) ==
  /\ IF lowOp = "GT" THEN key > lowValInt ELSE key >= lowValInt
  /\ IF highOp = "LT" THEN key < highValInt ELSE key <= highValInt
ExpectedRids == {inserted[i][2] : i \in {j \in 1 .. Len(inserted) : InScanRange(inserted[j][1])}}
KeyOfRid(rid) ==
  IF \E i \in 1 .. Len(inserted) : inserted[i][2] = rid
    THEN inserted[CHOOSE i \in 1 .. Len(inserted) : inserted[i][2] = rid][1]
    ELSE -1
ScanOver ==
  \/ lastOp.op = "scanNext" /\ lastOp.exc = "IndexScanCompleted"
  \/ lastOp.op = "startScan" /\ lastOp.exc = "NoSuchKeyFound"

\* C1: a scan of [lo, hi] with lowOp in {GT, GTE} and highOp in {LT, LTE},
\* run to IndexScanCompleted (or refused with NoSuchKeyFound), has returned
\* exactly the rids of the inserted entries whose key is in the range, each
\* once, in non-decreasing key order.
C1_ScanRoundTrip ==
  ScanOver =>
    /\ SeqRange(emitted) = ExpectedRids
    /\ Len(emitted) = Cardinality(ExpectedRids)
    /\ NonDecreasing([i \in 1 .. Len(emitted) |-> KeyOfRid(emitted[i])])

\* C2: after any sequence of insertions the chain of leaves from the
\* leftmost leaf visits every leaf exactly once, its keys are non-decreasing
\* and they are the inserted keys with their multiplicities.
C2_LeafChain ==
  NoScanYet =>
    /\ SeqRange(LeafChain) = AllLeaves
    /\ Len(LeafChain) = Cardinality(AllLeaves)
    /\ NonDecreasing(KeysOf(ChainEntries))
    /\ \A k \in Keys :
         Occurrences(KeysOf(ChainEntries), k) = Occurrences(KeysOf(inserted), k)

\* C3: every leaf reachable from the root is at the same depth, and every
\* leaf of the chain is reachable from the root.
C3_Balanced ==
  NoScanYet =>
    /\ \A x, y \in RootLeaves : x[2] = y[2]
    /\ SeqRange(LeafChain) \subseteq {x[1] : x \in RootLeaves}

\* C4: the descent for a key k by findSmallerKeyIndex ends in a leaf of the
\* chain that holds the entries with key k, or in which k can be placed
\* with the chain still ordered: no leaf before it holds a key above k and
\* no leaf after it a key below k.
C4_Routing ==
  NoScanYet =>
    \A k \in Keys :
      LET leaf == RouteLeaf(rootPageNo, k, IndexFilePages)
          at   == {i \in 1 .. Len(LeafChain) : LeafChain[i] = leaf}
          KeysAt(i) == SeqRange(KeysOf(LeafEntries(PageBytes(LeafChain[i]))))
      IN /\ at # {}
         /\ \A i \in at :
              \/ \A j \in 1 .. Len(LeafChain) : k \in KeysAt(j) => j = i
              \/ /\ \A j \in 1 .. (i - 1) : \A x \in KeysAt(j) : x <= k
                 /\ \A j \in (i + 1) .. Len(LeafChain) : \A x \in KeysAt(j) : x >= k

(***************************************************************************)
(* Pins of the index across operation boundaries                          *)
(***************************************************************************)
PinnedFrames == {i \in Frames : bufDescTable[i].valid /\ bufDescTable[i].pinCnt > 0}
ScanFrames ==
  {i \in Frames : /\ bufDescTable[i].valid
                  /\ bufDescTable[i].file = IndexFile
                  /\ bufDescTable[i].pageNo = currentPageNum}
\* nothing pinned outside a scan; inside one, only the current page of the
\* scan, once
PinDiscipline ==
  /\ ~scanExecuting => PinnedFrames = {}
  /\ scanExecuting =>
        /\ PinnedFrames \subseteq ScanFrames
        /\ \A i \in PinnedFrames : bufDescTable[i].pinCnt = 1
\* the page the scan holds is a leaf of the tree
ScanHoldsLeaf ==
  scanExecuting => \A i \in PinnedFrames : bufDescTable[i].pageNo \in AllLeaves

\* C15: after every operation of the index, no frame is pinned
\* when no scan is executing, and when one is executing at most the current
\* leaf of the scan is pinned, with a pin count of one.
C15_PinsAtBoundaries == PinDiscipline /\ ScanHoldsLeaf

\* C16: an insertEntry or startScan that fails with BufferExceededException
\* has unpinned every page it pinned: the pins held on the pool are the ones
\* held before the call.
C16_FailedOperationBalanced ==
  [][lastOp'.op \in {"insertEntry", "startScan"} /\ lastOp'.exc = "BufferExceeded"
       => PinTotal' = PinTotal]_vars

\* C17: a startScan whose range no entry of the tree satisfies raises
\* NoSuchKeyFoundException, and leaves no scan executing and no page of the
\* index pinned.
C17_EmptyRangeRaises ==
  /\ lastOp.op = "startScan"
  /\ lastOp.exc \in {"none", "NoSuchKeyFound"}
  /\ ExpectedRids = {}
  => /\ lastOp.exc = "NoSuchKeyFound"
     /\ ~scanExecuting
     /\ PinTotal = 0

\* C18: a scan with lowOp = GT returns no rid whose key equals lowVal, and a
\* scan with highOp = LT returns no rid whose key equals highVal.
C18_ExclusiveBounds ==
  \A i \in 1 .. Len(emitted) :
     /\ lowOp = "GT" => KeyOfRid(emitted[i]) # lowValInt
     /\ highOp = "LT" => KeyOfRid(emitted[i]) # highValInt

\* C19: when a scan with inclusive bounds (GTE, LTE) has answered scanNext
\* with IndexScanCompletedException, it has returned the entries whose key is
\* lowVal or highVal, and it is still initialized, holding its leaf pinned.
C19_InclusiveScanCompleted ==
  /\ lastOp.op = "scanNext"
  /\ lastOp.exc = "IndexScanCompleted"
  /\ lowOp = "GTE"
  /\ highOp = "LTE"
  => /\ \A i \in 1 .. Len(inserted) :
          inserted[i][1] \in {lowValInt, highValInt}
            => \E j \in 1 .. Len(emitted) : emitted[j] = inserted[i][2]
     /\ scanExecuting
     /\ currentPageNum \in AllLeaves
     /\ \E i \in ScanFrames : bufDescTable[i].pinCnt = 1

(***************************************************************************)
(* The first split of the root leaf                                        *)
(***************************************************************************)
\* the root is an internal node with the one key inserted[idx] (counting
\* from 0) over two leaves, the left one linked to the right one and the
\* right one ending the chain
RootOverTwoLeaves(idx) ==
  LET root  == PageBytes(rootPageNo)
      left  == root.pageNoArray[0]
      right == root.pageNoArray[1]
  IN /\ ~isLeaf(root)
     /\ numInNonLeaf(root) = 2
     /\ root.keyArray[0] = inserted[idx + 1][1]
     /\ \A i \in NonLeafKeySlots : i > 0 => root.keyArray[i] = 0
     /\ left \in AllLeaves
     /\ right \in AllLeaves
     /\ left # right
     /\ PageBytes(left).rightSibPageNo = right
     /\ PageBytes(right).rightSibPageNo = 0

\* C20 (as stated): after INTARRAYLEAFSIZE + 1 insertions in strictly
\* increasing key order into an empty index, the root is an internal node
\* whose one key is the key at index ceil(INTARRAYLEAFSIZE / 2) of the
\* inserted sequence, over two linked leaves.
C20_FirstSplitCeil ==
  Len(inserted) = INTARRAYLEAFSIZE + 1
    => RootOverTwoLeaves((INTARRAYLEAFSIZE + 1) \div 2)

\* C20 (amended): the same, the key of the root being the key at index
\* floor(INTARRAYLEAFSIZE / 2) of the inserted sequence.
C20_FirstSplitFloor ==
  Len(inserted) = INTARRAYLEAFSIZE + 1
    => RootOverTwoLeaves(INTARRAYLEAFSIZE \div 2)

\* the root leaf has been split by the insertion that found it full
C20_Witness ==
  /\ Len(inserted) = INTARRAYLEAFSIZE + 1
  /\ lastOp.op = "insertEntry"
  /\ lastOp.exc = "none"
  /\ ~isLeaf(PageBytes(rootPageNo))
  /\ Cardinality(AllLeaves) = 2

(***************************************************************************)
(* The arguments of startScan, and calls outside a scan                    *)
(***************************************************************************)
PoolUnchanged ==
  /\ bufDescTable' = bufDescTable
  /\ bufPool' = bufPool
  /\ hashTable' = hashTable
  /\ disk' = disk

\* C22: startScan raises BadOpcodesException when lowOp is not GT or GTE or
\* highOp is not LT or LTE, and BadScanrangeException when the operators are
\* accepted and lowVal > highVal; either way no page is read or pinned and no
\* scan becomes executing.
C22_BadArguments ==
  [][\A lo \in Keys, hi \in Keys, loOp \in Operators, hiOp \in Operators :
        StartScan(lo, loOp, hi, hiOp)
        => /\ loOp \notin {"GT", "GTE"} \/ hiOp \notin {"LT", "LTE"}
                => lastOp'.exc = "BadOpcodes"
           /\ loOp \in {"GT", "GTE"} /\ hiOp \in {"LT", "LTE"} /\ lo > hi
                => lastOp'.exc = "BadScanrange"
           /\ lastOp'.exc \in {"BadOpcodes", "BadScanrange"}
                => /\ PoolUnchanged
                   /\ scanExecuting' = scanExecuting
                   /\ ~scanExecuting']_vars

\* a startScan over a tree with entries was refused for its range
C22_Witness ==
  /\ lastOp.op = "startScan"
  /\ lastOp.exc = "BadScanrange"
  /\ lowValInt > highValInt
  /\ Len(inserted) > INTARRAYLEAFSIZE
  /\ ~scanExecuting
  /\ PinTotal = 0

\* C23: scanNext and endScan called while no scan is executing raise
\* ScanNotInitializedException and change neither the pool (pin counts
\* included) nor the state of the scan.
C23_NoScanNoEffect ==
  [][~scanExecuting /\ (ScanNext \/ EndScan)
       => /\ lastOp'.exc = "ScanNotInitialized"
          /\ PoolUnchanged
          /\ clockHand' = clockHand
          /\ btVars' = btVars]_vars

\* scanNext was refused after a startScan had been answered and the scan
\* was over
C23_Witness ==
  /\ lastOp.op \in {"scanNext", "endScan"}
  /\ lastOp.exc = "ScanNotInitialized"
  /\ ~scanExecuting
  /\ lowValInt > 0
  /\ inserted # <<>>

\* C24: a startScan called while a scan is executing ends that scan: after
\* the call the only page pinned for the index is the page of the new scan,
\* pinned once.
C24_RestartEndsEarlierScan ==
  [][StartScanDuringScan /\ lastOp'.exc = "none"
       => PinTotal' = 1 /\ PinDiscipline']_vars

\* C25: the destructor of the index completes without an error in every
\* state it is called in.
C25_DestructorCompletes ==
  lastOp.op = "destructor" => lastOp.exc = "none"

(***************************************************************************)
(* The shape insertEntry leaves                                            *)
(***************************************************************************)
\* C26: a leaf insertion puts the new entry at the first index whose key is
\* greater than the new key, so that in every leaf the entries with equal
\* keys stand in the order of their insertion (rids are handed out in that
\* order).
C26_DuplicatesAfterEquals ==
  \A p \in AllLeaves :
     LET es == LeafEntries(PageBytes(p)) IN
     \A i \in 1 .. Len(es), j \in 1 .. Len(es) :
        i < j /\ es[i][1] = es[j][1]
          => es[i][2].page_number < es[j][2].page_number

\* the keys stored in the leaves under page p
RECURSIVE KeysUnder(_, _)
KeysUnder(p, fuel) ==
  IF p = 0 \/ fuel = 0 THEN {}
  ELSE IF isLeaf(PageBytes(p))
    THEN SeqRange(KeysOf(LeafEntries(PageBytes(p))))
  ELSE UNION {KeysUnder(c, fuel - 1) : c \in Children(PageBytes(p))}

\* the internal nodes reached from the root
RECURSIVE InternalsUnder(_, _)
InternalsUnder(p, fuel) ==
  IF p = 0 \/ fuel = 0 THEN {}
  ELSE IF isLeaf(PageBytes(p)) THEN {}
  ELSE {p} \cup UNION {InternalsUnder(c, fuel - 1) : c \in Children(PageBytes(p))}

\* C29: after any sequence of insertEntry calls, every internal node has
\* strictly ascending keys over its occupancy, and the subtree of its child i
\* holds only keys below keyArray[i] and, for i > 0, not below keyArray[i-1].
C29_SeparatorsBoundSubtrees ==
  NoScanYet =>
    \A p \in InternalsUnder(rootPageNo, IndexFilePages) :
       LET node == PageBytes(p)
           n    == numInNonLeaf(node)
       IN /\ \A i \in 0 .. (n - 3) : node.keyArray[i] < node.keyArray[i + 1]
          /\ \A i \in 0 .. (n - 1) :
               \A k \in KeysUnder(node.pageNoArray[i], IndexFilePages) :
                  /\ i < n - 1 => k < node.keyArray[i]
                  /\ i > 0 => k >= node.keyArray[i - 1]

\* how often x stands in the occupied slots of an array of an internal node
ChildCount(node, x) == Cardinality({i \in NonLeafPageSlots : node.pageNoArray[i] = x})
KeyCount(node, x) == Cardinality({i \in NonLeafKeySlots : node.keyArray[i] = x})
NumChildren(node) == Cardinality({i \in NonLeafPageSlots : node.pageNoArray[i] # 0})
NumKeys(node) == Cardinality({i \in NonLeafKeySlots : node.keyArray[i] # 0})
One(b) == IF b THEN 1 ELSE 0
\* the bytes of page p after the step
PageBytesAfter(p) ==
  IF hashFound(hashTable', IndexFile, p)
    THEN bufPool'[hashFrame(hashTable', IndexFile, p)]
    ELSE FileReadPage(disk', IndexFile, p)

\* C30: when an insertion splits the full root internal node, every child
\* the node held and the new child appear exactly once across the node and
\* the new node, each of the two has one more child than keys, and every
\* key the node held and the incoming key appear exactly once among the
\* node, the new node and the key promoted into the new root.
C30_InternalSplitKeepsAll ==
  [][\A child \in 1 .. IndexFilePages, sibling \in 1 .. IndexFilePages :
        /\ lastOp'.op = "insertEntry"
        /\ lastOp'.exc = "none"
        /\ ~isLeaf(PageBytes(rootPageNo))
        /\ isNonLeafFull(PageBytes(rootPageNo))
        /\ rootPageNo' # rootPageNo
        /\ {child, sibling} \subseteq IndexPages' \ IndexPages
        /\ isLeaf(PageBytes(child)')
        /\ sibling = PageBytesAfter(rootPageNo').pageNoArray[1]
        => LET old      == PageBytes(rootPageNo)
               left     == PageBytesAfter(rootPageNo)
               right    == PageBytes(sibling)'
               promoted == PageBytesAfter(rootPageNo').keyArray[0]
               incoming == PageBytes(child)'.keyArray[0]
           IN /\ \A c \in 1 .. IndexFilePages :
                    ChildCount(left, c) + ChildCount(right, c) =
                      ChildCount(old, c) + One(c = child)
              /\ NumChildren(left) = NumKeys(left) + 1
              /\ NumChildren(right) = NumKeys(right) + 1
              /\ \A k \in Keys :
                    KeyCount(left, k) + KeyCount(right, k) + One(k = promoted) =
                      KeyCount(old, k) + One(k = incoming)]_vars

\* the valid entries of a node fill a prefix of its arrays and the rest of
\* the arrays is zero, so that the binary searches count the entries
LeafCompacted(node) ==
  \E k \in 0 .. INTARRAYLEAFSIZE :
     /\ \A i \in LeafSlots : i < k => node.ridArray[i] # EmptyRid
     /\ \A i \in LeafSlots :
          i >= k => node.ridArray[i] = EmptyRid /\ node.keyArray[i] = 0
     /\ numInLeaf(node) = k

NonLeafCompacted(node) ==
  \E c \in 1 .. (INTARRAYNONLEAFSIZE + 1) :
     /\ \A i \in NonLeafPageSlots : i < c => node.pageNoArray[i] # 0
     /\ \A i \in NonLeafPageSlots : i >= c => node.pageNoArray[i] = 0
     /\ \A j \in NonLeafKeySlots : j >= c - 1 => node.keyArray[j] = 0
     /\ numInNonLeaf(node) = c

\* C31: after any sequence of insertEntry calls, in every leaf the non-empty
\* rids fill a prefix [0..k) and every key and rid slot from k on is zero,
\* and in every internal node the non-zero child page ids fill a prefix
\* [0..c) with c >= 1 and every key slot from c-1 on and child slot from c
\* on is zero, so the occupancy found by binary search is the true one.
C31_Compaction ==
  \A p \in IndexPages :
     IF isLeaf(PageBytes(p)) THEN LeafCompacted(PageBytes(p))
     ELSE NonLeafCompacted(PageBytes(p))

\* C32: during startScan and scanNext the tree never asks the buffer
\* manager for page 0, the reserved meta page and the "no right sibling"
\* mark: no frame of the pool holds page 0 of the index file and page 0 is
\* never the current page of a scan, so the scanNext that returns the last
\* entry of the rightmost leaf returns normally and the next one raises
\* IndexScanCompletedException.
C32_NeverReadsPageZero ==
  /\ ~hashFound(hashTable, IndexFile, InvalidPageNo)
  /\ \A i \in Frames :
        bufDescTable[i].valid /\ bufDescTable[i].file = IndexFile
          => bufDescTable[i].pageNo # InvalidPageNo
  /\ scanExecuting => currentPageNum # InvalidPageNo

\* C33: a startScan that fails its validation (BadOpcodesException or
\* BadScanrangeException) while a scan is executing leaves that scan as it
\* was: bounds, operators, current leaf, position and pin are unchanged, so
\* the scanNext calls that follow return what they would have returned.
C33_RejectedStartScanNoEffect ==
  [][\A lo \in Keys, hi \in Keys, loOp \in Operators, hiOp \in Operators :
        StartScanRejected(lo, loOp, hi, hiOp)
          => /\ lastOp'.exc \in {"BadOpcodes", "BadScanrange"}
             /\ UNCHANGED <<btVars, bmVars>>]_vars

\* C35: with 32-bit integer keys, startScan with lowOp = GT and lowVal the
\* largest int stands on no entry and raises NoSuchKeyFoundException,
\* whatever the tree holds: the exclusive lower bound lowVal + 1 does not
\* wrap around and admit smaller keys.
C35_GreaterThanIntMax ==
  /\ lastOp.op = "startScan"
  /\ lowOp = "GT"
  /\ lowValInt = INT_MAX
  /\ highValInt = INT_MAX
  => lastOp.exc = "NoSuchKeyFound"

====
